---- MODULE Spec2Model ----
(***************************************************************************)
(* Model of twod_materials/pourbaix/analysis.py: the Pourbaix2D object,    *)
(* its constructor and make_plot, line by line (specification Spec); of    *)
(* utils.py: is_converged, get_spacing, add_vacuum and write_potcar        *)
(* (SpecPotcar); and of stability/startup.py: relax (SpecRelax) and        *)
(* relax_competing_species (SpecCompeting).                                *)
(*                                                                         *)
(* Numbers.  Python floats are modelled exactly: an energy is an integer   *)
(* count of 1e-4 eV (so 0.0591 eV is 591 and a metastability of m meV per  *)
(* atom is 10 * m per atom), and a value that the code divides is a        *)
(* rational [num, den] in lowest terms.  A concentration is given by its   *)
(* decimal exponent (1e-6 is -6), which is what log10 makes of it.         *)
(*                                                                         *)
(* Library objects.  ComputedEntry, IonEntry and PourbaixEntry are         *)
(* records with the attributes make_plot reads or writes.  The diagram     *)
(* builder, the analyzer and the plotter are pymatgen's; only their calls  *)
(* are in the source, so the lower envelope, the energy above the hull and *)
(* the stable entries follow the specification's description of them (the  *)
(* free-energy plane is the one written out in the source's comment).      *)
(***************************************************************************)
EXTENDS Integers, Sequences, FiniteSets, TLC

\* ------------------------------------------------------------- bounds

\* metastability arguments tried: 0, 50, ..., 50 * MaxMetastabilitySteps meV/atom
MaxMetastabilitySteps == 2

\* total energies tried for the compound: -21.5 eV + 2 eV * k, k in 0..MaxEnergySteps
MaxEnergySteps == 1

\* atoms in a structure file given to relax: 1..MaxAtoms
MaxAtoms == 2

\* elements on the element line of a structure file given to write_potcar: 1..MaxElements
MaxElements == 2

\* competing species handed to relax_competing_species: 0..MaxSpecies
MaxSpecies == 2

\* ---------------------------------------------------------- arithmetic

RECURSIVE GCD(_, _)
GCD(a, b) == IF b = 0 THEN a ELSE GCD(b, a % b)

Abs(x) == IF x < 0 THEN 0 - x ELSE x

\* a rational in lowest terms with a positive denominator
Rat(n, d) ==
    LET g == GCD(Abs(n), Abs(d))
        s == IF d < 0 THEN 0 - 1 ELSE 1
    IN  [num |-> (s * n) \div g, den |-> (s * d) \div g]

RatInt(n) == [num |-> n, den |-> 1]

RatAdd(a, b) == Rat(a.num * b.den + b.num * a.den, a.den * b.den)

RatSub(a, b) == Rat(a.num * b.den - b.num * a.den, a.den * b.den)

RatDiv(a, k) == Rat(a.num, a.den * k)

RatLeq(a, b) == a.num * b.den <= b.num * a.den

RatLess(a, b) == a.num * b.den < b.num * a.den

RatMin(S) == CHOOSE x \in S : \A y \in S : RatLeq(x, y)

RECURSIVE SumOver(_, _)
SumOver(f, S) ==
    IF S = {} THEN 0
    ELSE LET x == CHOOSE y \in S : TRUE IN f[x] + SumOver(f, S \ {x})

RECURSIVE GCDOver(_, _)
GCDOver(f, S) ==
    IF S = {} THEN 0
    ELSE LET x == CHOOSE y \in S : TRUE IN GCD(f[x], GCDOver(f, S \ {x}))

\* ------------------------------------------------ compositions and ions

\* Composition(formula): the formula strings the model tries, parsed; a
\* string outside the table does not parse.
Composition ==
    [MoS2  |-> [Mo |-> 1, S |-> 2],
     Mo2S4 |-> [Mo |-> 2, S |-> 4],
     MoO3  |-> [Mo |-> 1, O |-> 3],
     WS2   |-> [W |-> 1, S |-> 2]]

CompositionStrings == DOMAIN Composition \cup {"Mo$2"}

\* the order in which a composition lists its elements
ElementOrder == <<"Mo", "W", "S", "O", "H">>

\* composition[elt]: the amount of elt, 0 for an element it does not hold
Amount(comp, elt) == IF elt \in DOMAIN comp THEN comp[elt] ELSE 0

num_atoms(comp) == SumOver(comp, DOMAIN comp)

\* get_reduced_composition_and_factor()[1]
reduction_factor(comp) == GCDOver(comp, DOMAIN comp)

reduced_composition(comp) ==
    [e \in DOMAIN comp |-> comp[e] \div reduction_factor(comp)]

\* the formula string of a composition that is in lowest terms
FormulaString ==
    [MoS2 |-> [Mo |-> 1, S |-> 2],
     MoO3 |-> [Mo |-> 1, O |-> 3],
     WS2  |-> [W |-> 1, S |-> 2],
     MoO4 |-> [Mo |-> 1, O |-> 4],
     Mo   |-> [Mo |-> 1],
     SO4  |-> [S |-> 1, O |-> 4],
     HS   |-> [H |-> 1, S |-> 1],
     MoS4 |-> [Mo |-> 1, S |-> 4]]

reduced_formula(comp) ==
    CHOOSE f \in DOMAIN FormulaString : FormulaString[f] = reduced_composition(comp)

\* Ion.from_formula(key): composition and charge of the ion species of the
\* reference data
Ion_from_formula ==
    [k \in {"MoO4[2-]", "Mo[3+]", "SO4[2-]", "HS[-]", "MoS4[2-]"} |->
        CASE k = "MoO4[2-]" -> [composition |-> [Mo |-> 1, O |-> 4], charge |-> 0 - 2]
          [] k = "Mo[3+]"   -> [composition |-> [Mo |-> 1], charge |-> 3]
          [] k = "SO4[2-]"  -> [composition |-> [S |-> 1, O |-> 4], charge |-> 0 - 2]
          [] k = "HS[-]"    -> [composition |-> [H |-> 1, S |-> 1], charge |-> 0 - 1]
          [] k = "MoS4[2-]" -> [composition |-> [Mo |-> 1, S |-> 4], charge |-> 0 - 2]]

\* the order in which the keys of a dict of ion species are visited
IonOrder == <<"MoO4[2-]", "Mo[3+]", "MoS4[2-]", "SO4[2-]", "HS[-]">>

\* ------------------------------------------------------ reference data

EmptyRecord == [k \in {} |-> 0]

\* ION_DATA['ExpFormEnergy']: element -> (ion species -> formation energy).
\* The variants: every target element with ions; S with an empty record;
\* W is in no variant.
ExpFormEnergyTables ==
    { [Mo |-> [k \in {"MoO4[2-]", "Mo[3+]", "MoS4[2-]"} |->
                  CASE k = "MoO4[2-]" -> 0 - 86700
                    [] k = "Mo[3+]"   -> 0 - 6000
                    [] k = "MoS4[2-]" -> 5000],
       S  |-> [k \in {"SO4[2-]", "HS[-]"} |->
                  CASE k = "SO4[2-]" -> 0 - 77000
                    [] k = "HS[-]"   -> 1250]],
      [Mo |-> [k \in {"MoO4[2-]", "Mo[3+]", "MoS4[2-]"} |->
                  CASE k = "MoO4[2-]" -> 0 - 86700
                    [] k = "Mo[3+]"   -> 0 - 6000
                    [] k = "MoS4[2-]" -> 5000],
       S  |-> EmptyRecord] }

\* ION_DATA['IonCorrection']: element -> correction.  The variants: a
\* table, the same with Mo's correction doubled, and one without S.
IonCorrectionTables ==
    { [Mo |-> 400, S |-> 100],
      [Mo |-> 800, S |-> 100],
      [Mo |-> 400] }

\* END_MEMBERS: element -> reference energy per atom; one variant lacks O.
EndMemberTables ==
    { [Mo |-> 0 - 109000, W |-> 0 - 129000, S |-> 0 - 41000,
       O |-> 0 - 49000, H |-> 0 - 34000],
      [Mo |-> 0 - 109000, W |-> 0 - 129000, S |-> 0 - 41000,
       H |-> 0 - 34000] }

\* ION_COLORS: reduced formula -> colour index (per mille); one variant
\* lacks the colour of Mo.
IonColorTables ==
    { [MoO4 |-> 100, Mo |-> 300, MoS4 |-> 500, SO4 |-> 700, HS |-> 900],
      [MoO4 |-> 100, MoS4 |-> 500, SO4 |-> 700, HS |-> 900] }

\* ------------------------------------------------------------- inputs

\* total energies given to the constructor (-21.5 eV, -19.5 eV, ...)
Energies == { 20000 * k - 215000 : k \in 0..MaxEnergySteps }

Metastabilities == { 50 * k : k \in 0..MaxMetastabilitySteps }

\* ion_concentration arguments, as decimal exponents: 1e-6 (the default), 1e-8
Concentrations == { 0 - 6, 0 - 8 }

\* ------------------------------------------------------ library objects

\* ComputedEntry(composition, energy): no entry_id is given, so it is None
ComputedEntry(composition, energy) ==
    [composition |-> composition, uncorrected_energy |-> energy,
     correction |-> 0, entry_id |-> "None"]

\* ComputedEntry.energy
entry_energy(entry) == entry.uncorrected_energy + entry.correction

\* IonEntry(ion, energy): it has no entry_id
IonEntry(ion, energy) ==
    [composition |-> ion.composition, charge |-> ion.charge, energy |-> energy]

\* PourbaixEntry(entry) of a solid: concentration 1, no charge, no correction
PourbaixEntry_solid(entry) ==
    [name |-> reduced_formula(entry.composition) \o "(s)",
     phase_type |-> "Solid", conc |-> 0, charge |-> 0,
     composition |-> entry.composition,
     uncorrected_energy |-> RatInt(entry_energy(entry)),
     correction |-> RatInt(0),
     npH |-> Amount(entry.composition, "H") - 2 * Amount(entry.composition, "O"),
     nPhi |-> 2 * Amount(entry.composition, "O") - Amount(entry.composition, "H"),
     nH2O |-> Amount(entry.composition, "O"),
     entry_id |-> entry.entry_id]

\* PourbaixEntry(entry) of an ion: concentration 1e-6, the ion's charge
PourbaixEntry_ion(entry) ==
    [name |-> reduced_formula(entry.composition),
     phase_type |-> "Ion", conc |-> 0 - 6, charge |-> entry.charge,
     composition |-> entry.composition,
     uncorrected_energy |-> RatInt(entry.energy),
     correction |-> RatInt(0),
     npH |-> Amount(entry.composition, "H") - 2 * Amount(entry.composition, "O"),
     nPhi |-> 2 * Amount(entry.composition, "O") - Amount(entry.composition, "H")
              + entry.charge,
     nH2O |-> Amount(entry.composition, "O"),
     entry_id |-> "None"]

\* PourbaixEntry.g0: the energy with its correction
g0(pbx) == RatAdd(pbx.uncorrected_energy, pbx.correction)

\* PourbaixEntry.g0_replace(term)
g0_replace(pbx, term) == [pbx EXCEPT !.uncorrected_energy = RatInt(term)]

\* PourbaixEntry.reduced_entry(): every term of the entry is divided by the
\* reduction factor of its composition
reduced_entry(pbx) ==
    LET f == reduction_factor(pbx.composition)
    IN  [pbx EXCEPT !.uncorrected_energy = RatDiv(@, f),
                    !.correction = RatDiv(@, f),
                    !.npH = @ \div f, !.nPhi = @ \div f, !.nH2O = @ \div f]

\* energy_per_atom of an entry of the diagram
energy_per_atom(pbx) == RatDiv(g0(pbx), num_atoms(pbx.composition))

\* lines 46-48: energies per atom closer than 1e-6 eV (1/100 of the energy
\* unit) and the same reduced formula
same_energy_and_formula(entry, ent) ==
    LET d == RatSub(energy_per_atom(entry), energy_per_atom(ent))
    IN  /\ 100 * Abs(d.num) < d.den
        /\ reduced_formula(entry.composition) = reduced_formula(ent.composition)

\* contains_entry(entry_list, entry)
contains_entry(entry_list, entry) ==
    \E i \in 1..Len(entry_list) :
        \/ entry_list[i].entry_id = entry.entry_id
        \/ same_energy_and_formula(entry, entry_list[i])

\* ------------------------------------------- the diagram (pymatgen's)

\* 0.0591 in "g = g0_ref + 0.0591 * log10(conc) - ..."
PREFAC == 591

\* the chemical potential of water, -2.4583 eV
mu_H2O == 0 - 24583

\* limits=[[0, 14], [-2, 2]], sampled at its corners, edge midpoints and centre
limits == { <<pH, phi>> : pH \in {0, 7, 14}, phi \in {0 - 2, 0, 2} }

\* g = g0_ref + 0.0591 * log10(conc) - nO * mu_H2O + (nH - 2nO) * pH
\*     + phi * (-nH + 2nO + q), at the point p = <<pH, phi>>
g(pbx, p) ==
    RatAdd(g0(pbx),
           RatInt(PREFAC * pbx.conc - pbx.nH2O * mu_H2O
                  + pbx.npH * p[1] * 10000 + pbx.nPhi * p[2] * 10000))

\* the lower envelope of the entries' planes at p
hull(entries, p) == RatMin({ g(entries[i], p) : i \in 1..Len(entries) })

\* PourbaixAnalyzer(PourbaixDiagram(entries)).get_e_above_hull(entry)
get_e_above_hull(entries, entry) ==
    RatMin({ RatSub(g(entry, p), hull(entries, p)) : p \in limits })

\* pourbaix_plot_data(limits)[0]: the entries that own a stability region,
\* in the order of the entry list
stable_entries(entries) ==
    LET owns(i) == \E p \in limits : g(entries[i], p) = hull(entries, p)
        idx == SelectSeq([i \in 1..Len(entries) |-> i], owns)
    IN  [j \in 1..Len(idx) |-> entries[idx[j]]]

\* --------------------------------------------------------------- state

VARIABLES
    ExpFormEnergy,      \* ION_DATA['ExpFormEnergy']
    IonCorrection,      \* ION_DATA['IonCorrection']
    END_MEMBERS,
    ION_COLORS,
    self,               \* <<>> or <<the Pourbaix2D object: _composition, _energy>>
    pc,                 \* idle, a line of make_plot, returned or raised
    raised,             \* the exception the caller got from the last call, or None
    traceback,          \* the line that raised it, or None
    metastability,      \* make_plot's arguments
    ion_concentration,
    cmpd,               \* make_plot's locals; <<>> is one not yet assigned
    chemsys,
    ion_dict,
    elements,
    form_energy,
    pbx_cmpd,
    pbx_ion_entries,
    all_entries,
    instability,
    patches,            \* the Polygon patches added to the axes
    suptitle,
    savefig,            \* the files the call has written
    result,             \* <<>> or <<the value make_plot returned>>
    first_call          \* <<>> or <<arguments and outcome of the object's first completed make_plot>>

\* the files, directories and calls of utils.py and stability/startup.py
VARIABLES
    at,                 \* idle, a line of the running function, returned or raised
    error,              \* the exception that left the running function, or None
    POSCAR,             \* the file POSCAR of the working directory
    POSCAR_given,       \* the file POSCAR as the call found it
    spacing,            \* <<>> or <<what get_spacing returned>>
    delta,              \* <<>> or <<the vacuum thickness passed to add_vacuum>>
    POTENTIAL_PATH,     \* the directories of pot_path that hold a file POTCAR
    types,              \* write_potcar's argument
    write_potcar_elements, \* write_potcar's local list elements
    exists_calls,       \* per element, the directories os.path.exists was asked about
    POTCAR,             \* <<>> or <<the file POTCAR: the potentials copied into it>>
    cwd,                \* the working directory of the process
    started_in,         \* the working directory when the call began
    isdir,              \* the directories that exist
    converged,          \* the directories whose vasprun.xml reports convergence
    competing_species,  \* relax_competing_species' argument
    submit,
    force_overwrite,
    HIPERGATOR,         \* <<>> (the name is not bound), <<1>> or <<2>>
    specie,             \* the position of the loop of relax_competing_species
    written,            \* the files the call wrote: <<directory, file name>>
    submitted           \* the directories in which the call submitted runjob

poscar_files == <<POSCAR, POSCAR_given, spacing, delta>>

potcar_files == <<POTENTIAL_PATH, types, write_potcar_elements, exists_calls, POTCAR>>

job_files == <<cwd, started_in, isdir, converged, competing_species, submit,
               force_overwrite, HIPERGATOR, specie, written, submitted>>

startup == <<at, error, poscar_files, potcar_files, job_files>>

tables == <<ExpFormEnergy, IonCorrection, END_MEMBERS, ION_COLORS>>

exc == <<raised, traceback>>

args == <<metastability, ion_concentration>>

locals == <<cmpd, chemsys, ion_dict, elements, form_energy, pbx_cmpd,
            pbx_ion_entries, all_entries, instability>>

outputs == <<patches, suptitle, savefig, result>>

\* the variables of twod_materials.pourbaix.analysis
pourbaix == <<tables, self, pc, exc, args, locals, outputs, first_call>>

vars == <<pourbaix, startup>>

\* the lines of make_plot at which a call can stand
Lines == {"L81", "L93", "L98", "L111", "L136", "L144", "L170", "L183"}

\* the caller is between calls
Callable == pc \in {"idle", "returned", "raised"}

\* a call begins with nothing yet assigned after chemsys, written or returned
Fresh ==
    /\ ion_dict' = EmptyRecord
    /\ elements' = <<>> /\ form_energy' = <<>> /\ pbx_cmpd' = <<>>
    /\ pbx_ion_entries' = <<>> /\ all_entries' = <<>> /\ instability' = <<>>
    /\ patches' = <<>> /\ suptitle' = <<>> /\ savefig' = <<>> /\ result' = <<>>

\* no function of utils.py or startup.py has been called
NoCall == at = "idle" /\ error = "None"

\* the working directory holds no structure file and no vacuum has been measured
NoPoscar ==
    /\ POSCAR = <<>> /\ POSCAR_given = <<>>
    /\ spacing = <<>> /\ delta = <<>>

\* no pseudopotential has been looked up
NoPotcar ==
    /\ POTENTIAL_PATH = {} /\ types = "None"
    /\ write_potcar_elements = <<>> /\ exists_calls = <<>> /\ POTCAR = <<>>

\* no job directory has been set up
NoJobs ==
    /\ cwd = <<>> /\ started_in = <<>> /\ isdir = {<<>>} /\ converged = {}
    /\ competing_species = <<>> /\ submit = TRUE /\ force_overwrite = FALSE
    /\ HIPERGATOR = <<>> /\ specie = 0 /\ written = {} /\ submitted = <<>>

\* twod_materials.pourbaix.analysis has built no Pourbaix2D
NoPourbaix2D ==
    /\ ExpFormEnergy = EmptyRecord /\ IonCorrection = EmptyRecord
    /\ END_MEMBERS = EmptyRecord /\ ION_COLORS = EmptyRecord
    /\ self = <<>>
    /\ pc = "idle"
    /\ raised = "None"
    /\ traceback = "None"
    /\ metastability = 0
    /\ ion_concentration = 0 - 6
    /\ cmpd = <<>> /\ chemsys = <<>> /\ ion_dict = EmptyRecord
    /\ elements = <<>> /\ form_energy = <<>> /\ pbx_cmpd = <<>>
    /\ pbx_ion_entries = <<>> /\ all_entries = <<>> /\ instability = <<>>
    /\ patches = <<>> /\ suptitle = <<>> /\ savefig = <<>> /\ result = <<>>
    /\ first_call = <<>>

Init ==
    /\ ExpFormEnergy \in ExpFormEnergyTables
    /\ IonCorrection \in IonCorrectionTables
    /\ END_MEMBERS \in EndMemberTables
    /\ ION_COLORS \in IonColorTables
    /\ self = <<>>
    /\ pc = "idle"
    /\ raised = "None"
    /\ traceback = "None"
    /\ metastability = 0
    /\ ion_concentration = 0 - 6
    /\ cmpd = <<>> /\ chemsys = <<>> /\ ion_dict = EmptyRecord
    /\ elements = <<>> /\ form_energy = <<>> /\ pbx_cmpd = <<>>
    /\ pbx_ion_entries = <<>> /\ all_entries = <<>> /\ instability = <<>>
    /\ patches = <<>> /\ suptitle = <<>> /\ savefig = <<>> /\ result = <<>>
    /\ first_call = <<>>
    /\ NoCall /\ NoPoscar /\ NoPotcar /\ NoJobs

\* an exception leaves make_plot: nothing after the raising line runs
Raise(exception) ==
    /\ pc' = "raised"
    /\ raised' = exception
    /\ traceback' = pc
    /\ UNCHANGED <<startup, tables, self, args, locals, outputs, first_call>>

\* ------------------------------------------------------------ __init__

\* Pourbaix2D(composition, energy)
Pourbaix2D(composition, energy) ==
    /\ Callable
    /\ IF composition \in DOMAIN Composition
       THEN /\ self' = <<[composition |-> Composition[composition], energy |-> energy]>>
            /\ pc' = "idle"
            /\ raised' = "None"
            /\ traceback' = "None"
            /\ first_call' = <<>>
       ELSE /\ pc' = "raised"
            /\ raised' = "CompositionError"
            /\ traceback' = "L58"
            /\ UNCHANGED <<self, first_call>>
    /\ cmpd' = <<>>
    /\ chemsys' = <<>>
    /\ Fresh
    /\ UNCHANGED <<startup, tables, args>>

\* ----------------------------------------------------------- make_plot

\* the non-O/H elements of a composition, in its order
targets(comp) ==
    SelectSeq(ElementOrder, LAMBDA e : e \in DOMAIN comp /\ e \notin {"O", "H"})

\* lines 72-77: the call, cmpd and chemsys
make_plot(m, c) ==
    /\ Callable
    /\ self # <<>>
    /\ Fresh
    /\ metastability' = m
    /\ ion_concentration' = c
    /\ cmpd' = <<ComputedEntry(self[1].composition, self[1].energy)>>
    /\ chemsys' = <<"O", "H">> \o targets(self[1].composition)
    /\ pc' = "L81"
    /\ raised' = "None"
    /\ traceback' = "None"
    /\ UNCHANGED <<startup, tables, self, first_call>>

\* dict.update: the keys of d2 are added to d1, replacing those it holds
update(d1, d2) ==
    [k \in DOMAIN d1 \cup DOMAIN d2 |-> IF k \in DOMAIN d2 THEN d2[k] ELSE d1[k]]

\* lines 85-88: ion_dict, from the records of the elements elts that are not empty
RECURSIVE pick_ions(_, _)
pick_ions(exp_dict, elts) ==
    IF elts = <<>> THEN EmptyRecord
    ELSE LET d == pick_ions(exp_dict, SubSeq(elts, 1, Len(elts) - 1))
             elt == elts[Len(elts)]
         IN  IF elt \notin {"O", "H"} /\ DOMAIN exp_dict[elt] # {}
             THEN update(d, exp_dict[elt])
             ELSE d

\* lines 81-90: exp_dict[elt] of an element the table does not hold is a KeyError
PickIons ==
    /\ pc = "L81"
    /\ IF \E i \in 1..Len(chemsys) :
              chemsys[i] \notin {"O", "H"} /\ chemsys[i] \notin DOMAIN ExpFormEnergy
       THEN Raise("KeyError")
       ELSE /\ ion_dict' = pick_ions(ExpFormEnergy, chemsys)
            /\ elements' = SelectSeq(chemsys, LAMBDA e : e \notin {"O", "H"})
            /\ pc' = "L93"
            /\ UNCHANGED <<startup, tables, self, exc, args, cmpd, chemsys, form_energy,
                           pbx_cmpd, pbx_ion_entries, all_entries, instability,
                           outputs, first_call>>

\* the tolerance added to the energy instead of subtracted
metastability_correction_added(entry, m) ==
    [entry EXCEPT !.correction = @ + num_atoms(entry.composition) * m * 10]

\* lines 93-94: cmpd.correction -= float(num_atoms) * float(metastability) / 1000.0
metastability_correction(entry, m) ==
    [entry EXCEPT !.correction = @ - num_atoms(entry.composition) * m * 10]

\* the tolerance subtracted from the object's own energy as well
AddMetastability_on_object ==
    /\ pc = "L93"
    /\ cmpd' = <<metastability_correction(cmpd[1], metastability)>>
    /\ self' = <<[self[1] EXCEPT !.energy =
                     @ - num_atoms(self[1].composition) * metastability * 10]>>
    /\ pc' = "L98"
    /\ UNCHANGED <<startup, tables, exc, args, chemsys, ion_dict, elements,
                   form_energy, pbx_cmpd, pbx_ion_entries, all_entries,
                   instability, outputs, first_call>>

AddMetastability ==
    /\ pc = "L93"
    /\ cmpd' = <<metastability_correction(cmpd[1], metastability)>>
    /\ pc' = "L98"
    /\ UNCHANGED <<startup, tables, self, exc, args, chemsys, ion_dict, elements,
                   form_energy, pbx_cmpd, pbx_ion_entries, all_entries,
                   instability, outputs, first_call>>

\* the end members' energies taken once each, whatever the amounts
formation_energy_per_element(entry, comp, end_members) ==
    entry_energy(entry)
    - SumOver([elt \in DOMAIN comp |-> end_members[elt]], DOMAIN comp)

\* lines 98-100: the energy of cmpd less its end members'
formation_energy(entry, comp, end_members) ==
    entry_energy(entry)
    - SumOver([elt \in DOMAIN comp |-> end_members[elt] * Amount(entry.composition, elt)],
              DOMAIN comp)

\* lines 104-106: the compound's Pourbaix entry
pourbaix_compound(entry, energy) ==
    reduced_entry(g0_replace(PourbaixEntry_solid(entry), energy))

\* lines 98-106: END_MEMBERS[elt] of an element the table does not hold is a KeyError
FormationEnergy ==
    /\ pc = "L98"
    /\ IF \E elt \in DOMAIN self[1].composition : elt \notin DOMAIN END_MEMBERS
       THEN Raise("KeyError")
       ELSE /\ form_energy' = <<formation_energy(cmpd[1], self[1].composition, END_MEMBERS)>>
            /\ pbx_cmpd' = <<pourbaix_compound(cmpd[1], form_energy'[1])>>
            /\ pc' = "L111"
            /\ UNCHANGED <<startup, tables, self, exc, args, cmpd, chemsys, ion_dict,
                           elements, pbx_ion_entries, all_entries, instability,
                           outputs, first_call>>

\* the keys of a dict in the order they are visited
keys(d) == SelectSeq(IonOrder, LAMBDA k : k \in DOMAIN d)

\* no ion species is skipped
contains_element_always(key, elt) == TRUE

\* line 121: comp.composition[elt] != 0
contains_element(key, elt) == Amount(Ion_from_formula[key].composition, elt) # 0

\* lines 118-121: the (element, ion species) pairs for which an entry is made,
\* in the order of the two loops
ion_pairs(elts, d) ==
    LET ks == keys(d)
        n == Len(ks)
        all == [i \in 1..(Len(elts) * n) |->
                   <<elts[((i - 1) \div n) + 1], ks[((i - 1) % n) + 1]>>]
    IN  SelectSeq(all, LAMBDA p : contains_element(p[2], p[1]))

\* the correction taken as it is, whatever the amount
ion_entry_correction_unscaled(corrections, elt, key) == corrections[elt]

\* lines 122-126: the correction of the entry made for elt and the ion key
ion_entry_correction(corrections, elt, key) ==
    corrections[elt] * Amount(Ion_from_formula[key].composition, elt)

\* lines 120-128: the entry made for elt and the ion key
pbx_entry_ion(d, corrections, conc, elt, key) ==
    [PourbaixEntry_ion(IonEntry(Ion_from_formula[key], d[key])) EXCEPT
        !.correction = RatInt(ion_entry_correction(corrections, elt, key)),
        !.conc = conc,
        !.name = key]

\* lines 111-129: ion_correction[elt.symbol] of an element the table does not
\* hold is a KeyError
IonEntries ==
    /\ pc = "L111"
    /\ LET pairs == ion_pairs(elements, ion_dict)
       IN  IF \E i \in 1..Len(pairs) : pairs[i][1] \notin DOMAIN IonCorrection
           THEN Raise("KeyError")
           ELSE /\ pbx_ion_entries' =
                       [i \in 1..Len(pairs) |->
                           pbx_entry_ion(ion_dict, IonCorrection, ion_concentration,
                                         pairs[i][1], pairs[i][2])]
                /\ pc' = "L136"
                /\ UNCHANGED <<startup, tables, self, exc, args, cmpd, chemsys, ion_dict,
                               elements, form_energy, pbx_cmpd, all_entries,
                               instability, outputs, first_call>>

\* line 136: all_entries = [pbx_cmpd] + pbx_ion_entries
entry_list(compound, ions) == <<compound>> \o ions

\* lines 136-142: the diagram and the compound's energy above its hull
Diagram ==
    /\ pc = "L136"
    /\ all_entries' = entry_list(pbx_cmpd[1], pbx_ion_entries)
    /\ instability' = <<get_e_above_hull(all_entries', pbx_cmpd[1])>>
    /\ pc' = "L144"
    /\ UNCHANGED <<startup, tables, self, exc, args, cmpd, chemsys, ion_dict, elements,
                   form_energy, pbx_cmpd, pbx_ion_entries, outputs, first_call>>

\* lines 156-160: the colour of an entry's patch
patch_color(entry, compound, colors) ==
    IF entry = compound
    THEN <<"Blues", 0>>
    ELSE <<"rainbow", colors[reduced_formula(entry.composition)]>>

\* the file written before the patches are coloured
Plot_after_savefig ==
    /\ pc = "L144"
    /\ savefig' = Append(savefig, reduced_formula(self[1].composition) \o ".pdf")
    /\ LET stable == stable_entries(all_entries)
       IN  IF \E i \in 1..Len(stable) :
                  /\ stable[i] # pbx_cmpd[1]
                  /\ reduced_formula(stable[i].composition) \notin DOMAIN ION_COLORS
           THEN /\ pc' = "raised"
                /\ raised' = "KeyError"
                /\ traceback' = pc
                /\ UNCHANGED <<startup, tables, self, args, locals, patches, suptitle,
                               result, first_call>>
           ELSE /\ patches' = [i \in 1..Len(stable) |->
                                  [name |-> stable[i].name,
                                   color |-> patch_color(stable[i], pbx_cmpd[1], ION_COLORS)]]
                /\ pc' = "L170"
                /\ UNCHANGED <<startup, tables, self, exc, args, locals, suptitle,
                               result, first_call>>

\* lines 144-167: one patch per stable entry; ION_COLORS[...] of a formula the
\* table does not hold is a KeyError
Plot ==
    /\ pc = "L144"
    /\ LET stable == stable_entries(all_entries)
       IN  IF \E i \in 1..Len(stable) :
                  /\ stable[i] # pbx_cmpd[1]
                  /\ reduced_formula(stable[i].composition) \notin DOMAIN ION_COLORS
           THEN Raise("KeyError")
           ELSE /\ patches' = [i \in 1..Len(stable) |->
                                  [name |-> stable[i].name,
                                   color |-> patch_color(stable[i], pbx_cmpd[1], ION_COLORS)]]
                /\ pc' = "L170"
                /\ UNCHANGED <<startup, tables, self, exc, args, locals, suptitle,
                               savefig, result, first_call>>

\* the tolerance left out of the file's name
file_name_without_tolerance(formula, m) == formula \o ".pdf"

\* lines 174-175 and 178: the name of the file written
file_name(formula, m) ==
    IF m # 0
    THEN formula \o "_" \o ToString(m) \o "meV.pdf"
    ELSE formula \o ".pdf"

\* lines 170-181: the title and the file
Save ==
    /\ pc = "L170"
    /\ suptitle' = IF metastability # 0
                   THEN <<"Metastable Tolerance = " \o ToString(metastability)
                          \o " meV/atom">>
                   ELSE <<>>
    /\ savefig' = Append(savefig,
                         file_name(reduced_formula(self[1].composition), metastability))
    /\ pc' = "L183"
    /\ UNCHANGED <<startup, tables, self, exc, args, locals, patches, result, first_call>>

\* line 183: return instability
Return ==
    /\ pc = "L183"
    /\ result' = instability
    /\ pc' = "returned"
    /\ first_call' =
          IF first_call = <<>>
          THEN <<[metastability |-> metastability,
                  ion_concentration |-> ion_concentration,
                  instability |-> instability[1],
                  all_entries |-> all_entries]>>
          ELSE first_call
    /\ UNCHANGED <<startup, tables, self, exc, args, locals, patches, suptitle, savefig>>

\* ---------------------------------------------------------------- spec

Next ==
    \/ \E composition \in CompositionStrings, energy \in Energies :
          Pourbaix2D(composition, energy)
    \/ \E m \in Metastabilities, c \in Concentrations : make_plot(m, c)
    \/ PickIons
    \/ AddMetastability
    \/ FormationEnergy
    \/ IonEntries
    \/ Diagram
    \/ Plot
    \/ Save
    \/ Return

Spec == Init /\ [][Next]_vars

\* ============================================================ utils.py
\* Numbers of a POSCAR are exact rationals; the rounding of Python's float
\* and of the text written to the file is left out.  A file name or a
\* directory name is a string, cut and joined as the code cuts and joins it.

RatTimes(a, b) == Rat(a.num * b.num, a.den * b.den)

RatOver(a, b) == Rat(a.num * b.den, a.den * b.num)

RatMax(S) == CHOOSE x \in S : \A y \in S : RatLeq(y, x)

\* the values of a list, as a set
Values(list) == { list[k] : k \in DOMAIN list }

\* --------------------------------------------------------- is_converged

\* Vasprun(directory/vasprun.xml).converged; a missing or unreadable file is False
is_converged(directory) == directory \in converged

\* ---------------------------------------------------------- get_spacing

\* the third column of an atom line as get_spacing reads it
z_below_cutoff(z, cutoff) == IF RatLess(cutoff, z) THEN RatSub(z, RatInt(1)) ELSE z

get_spacing(poscar, cutoff) ==
    LET z_coords == [k \in DOMAIN poscar.z_coords |->
                        z_below_cutoff(poscar.z_coords[k], cutoff)]
        max_height == RatMax(Values(z_coords))
        min_height == RatMin(Values(z_coords))
    IN  RatTimes(RatTimes(RatSub(RatAdd(RatInt(1), min_height), max_height),
                          poscar.c_axis),
                 poscar.lattice_parameter)

\* ----------------------------------------------------------- add_vacuum

\* lines 123-133: the shift that puts the lowest atom found above cut at 1.0
add_factor(z_coords, cut) ==
    LET wraps(z) == RatLess(z, RatInt(0)) /\ RatLess(cut, RatAdd(RatInt(1), z))
        addables == { IF wraps(z) THEN RatAdd(z, RatInt(1)) ELSE z :
                        z \in { y \in Values(z_coords) : RatLess(cut, y) \/ wraps(y) } }
    IN  IF addables # {} THEN RatSub(RatInt(1), RatMin(addables)) ELSE RatInt(0)

\* lines 111-145: POSCAR rewritten with every atom moved up by add_factor
fix_bottom_atoms(poscar, cut) ==
    LET factor == add_factor(poscar.z_coords, cut)
        moved(z) == LET new_atom_line_2 == RatAdd(z, factor)
                    IN  IF RatLeq(RatInt(1), new_atom_line_2)
                        THEN RatSub(new_atom_line_2, RatInt(1))
                        ELSE new_atom_line_2
    IN  [poscar EXCEPT !.z_coords = [k \in DOMAIN poscar.z_coords |->
                                        moved(poscar.z_coords[k])]]

\* lines 148-217: the c vector made longer by thickness, the atoms rescaled
elongate(poscar, thickness) ==
    LET save == poscar.c_axis
        c_length == RatTimes(poscar.c_axis, poscar.lattice_parameter)
        c_length_plus_delta == RatAdd(c_length, thickness)
        c_lat_par_2 == RatOver(c_length_plus_delta, poscar.lattice_parameter)
        scalar == RatOver(c_lat_par_2, save)
    IN  [poscar EXCEPT !.c_axis = c_lat_par_2,
                       !.z_coords = [k \in DOMAIN poscar.z_coords |->
                                        RatOver(poscar.z_coords[k], scalar)]]

add_vacuum(poscar, thickness, cut) == elongate(fix_bottom_atoms(poscar, cut), thickness)

\* --------------------------------------------------------- write_potcar

\* potcar_symbols.yaml: the potential recommended for an element.  The file is
\* data read at line 234; these entries give one element a typed potential
\* and one an untyped one
potcar_symbols == [Mo |-> "Mo_pv", S |-> "S"]

\* str.replace: every occurrence of old in s, left to right, becomes new
RECURSIVE replace(_, _, _)
replace(s, old, new) ==
    IF Len(s) < Len(old) \/ Len(s) = 0 THEN s
    ELSE IF SubSeq(s, 1, Len(old)) = old
         THEN new \o replace(SubSeq(s, Len(old) + 1, Len(s)), old, new)
         ELSE SubSeq(s, 1, 1) \o replace(SubSeq(s, 2, Len(s)), old, new)

\* s[:-n] for n > 0
without_last(s, n) == SubSeq(s, 1, Len(s) - n)

\* lines 236-238: the list of types when the argument is left at 'None'
default_types(elts) ==
    [k \in DOMAIN elts |-> replace(replace(potcar_symbols[elts[k]], elts[k], ""), "_", "")]

\* os.path.exists('pot_path/name/POTCAR')
potential_exists(pot_path, name) == name \in pot_path

\* lines 242-282 for one element: the names elements[i] takes, one after the
\* other, each of them asked about until one exists; the last is kept
variations(elt, type) ==
    LET specified == IF type = "" THEN elt ELSE elt \o "_" \o type
        stem == IF type = "regular" THEN specified
                ELSE without_last(specified, Len(type) + 1)
        sv == stem \o "_sv"
        pv == without_last(sv, 3) \o "_pv"
        three == without_last(pv, 3) \o "_3"
        bare == without_last(three, 2)
    IN  <<specified, sv, pv, three, bare>>

\* how many of the variations are asked about
tried(pot_path, names) ==
    IF \E k \in DOMAIN names : potential_exists(pot_path, names[k])
    THEN CHOOSE k \in DOMAIN names :
            /\ potential_exists(pot_path, names[k])
            /\ \A j \in 1..(k - 1) : ~potential_exists(pot_path, names[j])
    ELSE Len(names)

\* the whole of write_potcar: the final list elements, the directories asked
\* about for each element, the file POTCAR, and the exception if one leaves
write_potcar(poscar, pot_path, type_list) ==
    LET elts == poscar.elements
        tps == IF type_list = <<>> THEN default_types(elts) ELSE type_list[1]
        names == [k \in DOMAIN elts |-> variations(elts[k], tps[k])]
        asked == [k \in DOMAIN elts |-> SubSeq(names[k], 1, tried(pot_path, names[k]))]
        final == [k \in DOMAIN elts |-> asked[k][Len(asked[k])]]
        missing == { k \in DOMAIN elts : ~potential_exists(pot_path, final[k]) }
        copied == IF missing = {} THEN Len(final)
                  ELSE (CHOOSE k \in missing : \A j \in missing : k <= j) - 1
    IN  [elements |-> final,
         exists_calls |-> asked,
         POTCAR |-> <<SubSeq(final, 1, copied)>>,
         error |-> IF missing = {} THEN "None" ELSE "IOError"]

\* --------------------------------------------------- write_potcar, called

\* the element line of the structure files write_potcar is run on
ElementLines == UNION { [1..n -> {"Mo", "S"}] : n \in 1..MaxElements }

\* the kinds of potential asked for
TypeStrings == {"", "pv", "regular"}

\* the directories of potentials that may be installed
PotentialDirectories == {"Mo", "Mo_pv", "Mo_sv", "S"}

InitPotcar ==
    /\ NoPourbaix2D /\ NoCall /\ NoJobs
    /\ \E elts \in ElementLines :
          /\ POSCAR = [lattice_parameter |-> RatInt(1), c_axis |-> RatInt(10),
                       elements |-> elts, z_coords |-> <<RatInt(0)>>]
          /\ types \in {<<>>} \cup { <<t>> : t \in [DOMAIN elts -> TypeStrings] }
    /\ POSCAR_given = POSCAR
    /\ spacing = <<>> /\ delta = <<>>
    /\ POTENTIAL_PATH \in SUBSET PotentialDirectories
    /\ write_potcar_elements = <<>> /\ exists_calls = <<>> /\ POTCAR = <<>>

\* lines 220-293, called in the working directory
WritePotcar ==
    /\ at = "idle"
    /\ LET potcar == write_potcar(POSCAR, POTENTIAL_PATH, types)
       IN  /\ write_potcar_elements' = potcar.elements
           /\ exists_calls' = potcar.exists_calls
           /\ POTCAR' = potcar.POTCAR
           /\ error' = potcar.error
           /\ at' = IF potcar.error = "None" THEN "returned" ELSE "raised"
    /\ UNCHANGED <<pourbaix, poscar_files, POTENTIAL_PATH, types, job_files>>

NextPotcar == WritePotcar

SpecPotcar == InitPotcar /\ [][NextPotcar]_vars

\* =================================================== stability/startup.py
\* A directory is the list of the names on its path.  The module is imported
\* in the directory the calls start in, and config.yaml is in place.

\* the directories a session starts in
StartDirectories == {<<"ufrc", "MoS2">>, <<"scratch", "MoS2">>, <<"home", "MoS2">>}

\* lines 27-30: HIPERGATOR is bound only on the two file systems
hipergator(getcwd) ==
    IF "ufrc" \in Values(getcwd) THEN <<2>>
    ELSE IF "scratch" \in Values(getcwd) THEN <<1>>
    ELSE <<>>

\* a change of directory that goes nowhere
parent_is_here(directory) == directory

\* os.chdir('../')
parent(directory) == SubSeq(directory, 1, Len(directory) - 1)

\* os.path.join(os.getcwd(), name), os.chdir(name)
join(directory, name) == Append(directory, name)

\* the potentials installed: for every element; for S only; recommended ones only
PotentialPaths == {{"Mo", "Mo_pv", "Mo_sv", "S"}, {"S"}, {"Mo_pv", "S"}}

\* the files named, in one directory
in_directory(directory, names) == { <<directory, name>> : name \in names }

\* lines 63-86 and 110-124: the input files of one job directory.  The files
\* before POTCAR are always written; write_potcar opens POTCAR before it can
\* fail; runjob needs HIPERGATOR, which raises NameError when it is not bound
job_inputs(directory, before_potcar, potcar) ==
    LET failure == IF potcar.error # "None" THEN potcar.error
                   ELSE IF HIPERGATOR = <<>> THEN "NameError"
                   ELSE "None"
    IN  [error |-> failure,
         written |-> in_directory(directory,
                        before_potcar \cup {"POTCAR"}
                        \cup (IF failure = "None" THEN {"runjob"} ELSE {}))]

\* ---------------------------------------------------------------- relax

\* the structure files relax is run on: the atoms' fractional z, the length
\* of the c vector and the scaling factor of line 2
FractionalZ == { Rat(k, 100) : k \in {0, 10, 50, 92, 97} }

CAxes == { RatInt(10), RatInt(30) }

LatticeParameters == { RatInt(1), RatInt(2) }

Poscars ==
    { [lattice_parameter |-> a, c_axis |-> c, elements |-> <<"Mo", "S">>, z_coords |-> z] :
        a \in LatticeParameters, c \in CAxes,
        z \in UNION { [1..n -> FractionalZ] : n \in 1..MaxAtoms } }

InitRelax ==
    /\ NoPourbaix2D /\ NoCall
    /\ POSCAR \in Poscars
    /\ POSCAR_given = POSCAR
    /\ spacing = <<>> /\ delta = <<>>
    /\ POTENTIAL_PATH \in PotentialPaths
    /\ types = <<>>
    /\ write_potcar_elements = <<>> /\ exists_calls = <<>> /\ POTCAR = <<>>
    /\ cwd \in StartDirectories
    /\ started_in = cwd
    /\ isdir = {cwd}
    /\ converged \in SUBSET {cwd}
    /\ competing_species = <<>>
    /\ submit \in BOOLEAN
    /\ force_overwrite \in BOOLEAN
    /\ HIPERGATOR = hipergator(cwd)
    /\ specie = 0 /\ written = {} /\ submitted = <<>>

\* line 58
relax ==
    /\ at = "idle"
    /\ at' = IF force_overwrite \/ ~is_converged(cwd) THEN "L61" ELSE "returned"
    /\ UNCHANGED <<pourbaix, error, poscar_files, potcar_files, job_files>>

\* line 61: utl.add_vacuum(20 - utl.get_spacing(), 0.9)
EnsureVacuum ==
    /\ at = "L61"
    /\ LET measured == get_spacing(POSCAR, Rat(95, 100))
           thickness == RatSub(RatInt(20), measured)
       IN  /\ spacing' = <<measured>>
           /\ delta' = <<thickness>>
           /\ POSCAR' = add_vacuum(POSCAR, thickness, Rat(9, 10))
    /\ written' = written \cup in_directory(cwd, {"POSCAR"})
    /\ at' = "L63"
    /\ UNCHANGED <<pourbaix, error, POSCAR_given, potcar_files, cwd, started_in,
                   isdir, converged, competing_species, submit, force_overwrite,
                   HIPERGATOR, specie, submitted>>

\* lines 63-86
RelaxInputs ==
    /\ at = "L63"
    /\ LET potcar == write_potcar(POSCAR, POTENTIAL_PATH, <<>>)
           job == job_inputs(cwd, {"vdw_kernel.bindat", "KPOINTS", "INCAR"}, potcar)
       IN  /\ write_potcar_elements' = potcar.elements
           /\ exists_calls' = potcar.exists_calls
           /\ POTCAR' = potcar.POTCAR
           /\ written' = written \cup job.written
           /\ error' = job.error
           /\ at' = IF job.error = "None" THEN "L88" ELSE "raised"
    /\ UNCHANGED <<pourbaix, poscar_files, POTENTIAL_PATH, types, cwd, started_in,
                   isdir, converged, competing_species, submit, force_overwrite,
                   HIPERGATOR, specie, submitted>>

\* lines 88-89
RelaxSubmit ==
    /\ at = "L88"
    /\ submitted' = IF submit THEN Append(submitted, cwd) ELSE submitted
    /\ at' = "returned"
    /\ UNCHANGED <<pourbaix, error, poscar_files, potcar_files, cwd, started_in,
                   isdir, converged, competing_species, submit, force_overwrite,
                   HIPERGATOR, specie, written>>

NextRelax ==
    \/ relax
    \/ EnsureVacuum
    \/ RelaxInputs
    \/ RelaxSubmit

SpecRelax == InitRelax /\ [][NextRelax]_vars

\* ----------------------------------------------- relax_competing_species

\* the competing species handed over: (formula, Materials Project id)
CompetingSpecies == {<<"S", "mp-96">>, <<"MoS2", "mp-2815">>}

SpeciesLists == UNION { [1..n -> CompetingSpecies] : n \in 0..MaxSpecies }

\* MPR.get_structure_by_material_id(id).to('POSCAR', 'POSCAR'): the file
\* written; the Materials Project answers every request
structure_to_poscar(id) ==
    [lattice_parameter |-> RatInt(1), c_axis |-> RatInt(10),
     elements |-> IF id = "mp-96" THEN <<"S">> ELSE <<"Mo", "S">>,
     z_coords |-> <<RatInt(0)>>]

\* the directory of all competitors and the directory of one species
all_competitors(start) == join(start, "all_competitors")

species_directory(start, name) == join(all_competitors(start), name)

InitCompeting ==
    /\ NoPourbaix2D /\ NoCall /\ NoPoscar
    /\ POTENTIAL_PATH \in PotentialPaths
    /\ types = <<>>
    /\ write_potcar_elements = <<>> /\ exists_calls = <<>> /\ POTCAR = <<>>
    /\ cwd \in StartDirectories
    /\ started_in = cwd
    /\ competing_species \in SpeciesLists
    /\ converged \in SUBSET { species_directory(cwd, s[1]) : s \in CompetingSpecies }
    /\ \E earlier \in BOOLEAN :
          isdir = {cwd} \cup converged
                  \cup (IF earlier \/ converged # {} THEN {all_competitors(cwd)} ELSE {})
    /\ submit \in BOOLEAN
    /\ force_overwrite \in BOOLEAN
    /\ HIPERGATOR = hipergator(cwd)
    /\ specie = 0 /\ written = {} /\ submitted = <<>>

\* lines 100-102
relax_competing_species ==
    /\ at = "idle"
    /\ isdir' = isdir \cup {join(cwd, "all_competitors")}
    /\ cwd' = join(cwd, "all_competitors")
    /\ specie' = 1
    /\ at' = "L104"
    /\ UNCHANGED <<pourbaix, error, poscar_files, potcar_files, started_in,
                   converged, competing_species, submit, force_overwrite,
                   HIPERGATOR, written, submitted>>

\* lines 104-109: the next species is examined
ExamineSpecie ==
    /\ at = "L104"
    /\ specie <= Len(competing_species)
    /\ LET name == competing_species[specie][1]
           directory == join(cwd, name)
       IN  /\ isdir' = isdir \cup {directory}
           /\ IF force_overwrite \/ ~is_converged(directory)
              THEN /\ cwd' = join(cwd, name)
                   /\ at' = "L110"
                   /\ UNCHANGED specie
              ELSE /\ specie' = specie + 1
                   /\ UNCHANGED <<cwd, at>>
    /\ UNCHANGED <<pourbaix, error, poscar_files, potcar_files, started_in,
                   converged, competing_species, submit, force_overwrite,
                   HIPERGATOR, written, submitted>>

\* lines 110-124
SpecieInputs ==
    /\ at = "L110"
    /\ LET structure == structure_to_poscar(competing_species[specie][2])
           potcar == write_potcar(structure, POTENTIAL_PATH, <<>>)
           job == job_inputs(cwd, {"vdw_kernel.bindat", "POSCAR", "KPOINTS", "INCAR"},
                             potcar)
       IN  /\ POSCAR' = structure
           /\ write_potcar_elements' = potcar.elements
           /\ exists_calls' = potcar.exists_calls
           /\ POTCAR' = potcar.POTCAR
           /\ written' = written \cup job.written
           /\ error' = job.error
           /\ at' = IF job.error = "None" THEN "L126" ELSE "raised"
    /\ UNCHANGED <<pourbaix, POSCAR_given, spacing, delta, POTENTIAL_PATH, types,
                   cwd, started_in, isdir, converged, competing_species, submit,
                   force_overwrite, HIPERGATOR, specie, submitted>>

\* lines 126-127
SpecieSubmit ==
    /\ at = "L126"
    /\ submitted' = IF submit THEN Append(submitted, cwd) ELSE submitted
    /\ at' = "L129"
    /\ UNCHANGED <<pourbaix, error, poscar_files, potcar_files, cwd, started_in,
                   isdir, converged, competing_species, submit, force_overwrite,
                   HIPERGATOR, specie, written>>

\* line 129, and on to the next species
LeaveSpecie ==
    /\ at = "L129"
    /\ cwd' = parent(cwd)
    /\ specie' = specie + 1
    /\ at' = "L104"
    /\ UNCHANGED <<pourbaix, error, poscar_files, potcar_files, started_in,
                   isdir, converged, competing_species, submit, force_overwrite,
                   HIPERGATOR, written, submitted>>

\* line 130: the list is exhausted
LeaveAllCompetitors ==
    /\ at = "L104"
    /\ specie > Len(competing_species)
    /\ cwd' = parent(cwd)
    /\ at' = "returned"
    /\ UNCHANGED <<pourbaix, error, poscar_files, potcar_files, started_in,
                   isdir, converged, competing_species, submit, force_overwrite,
                   HIPERGATOR, specie, written, submitted>>

NextCompeting ==
    \/ relax_competing_species
    \/ ExamineSpecie
    \/ SpecieInputs
    \/ SpecieSubmit
    \/ LeaveSpecie
    \/ LeaveAllCompetitors

SpecCompeting == InitCompeting /\ [][NextCompeting]_vars

\* --------------------------------------------------------------- claims

\* the call has assigned pbx_ion_entries (it stands after line 129)
IonEntriesBuilt == pc \in {"L136", "L144", "L170", "L183", "returned"}

\* the call has handed all_entries to the diagram builder (line 138)
DiagramBuilt == pc \in {"L144", "L170", "L183", "returned"}

\* the call that returned has the concentration of the object's first call
SameConcentrationAsFirst ==
    /\ pc = "returned"
    /\ first_call # <<>>
    /\ first_call[1].ion_concentration = ion_concentration

\* C2, as amended: for the same object, concentration and reference data, a
\* call with a larger metastability tolerance never returns a larger
\* instability score than one with a smaller tolerance.
C2_ScoreNeverIncreasesWithTolerance ==
    SameConcentrationAsFirst =>
        /\ metastability >= first_call[1].metastability
              => RatLeq(result[1], first_call[1].instability)
        /\ metastability <= first_call[1].metastability
              => RatLeq(first_call[1].instability, result[1])

\* C2 as claimed: for m1 <= m2, score(m1) <= score(m2).
C2_ScoreNeverDecreasesWithTolerance ==
    SameConcentrationAsFirst =>
        /\ metastability >= first_call[1].metastability
              => RatLeq(first_call[1].instability, result[1])
        /\ metastability <= first_call[1].metastability
              => RatLeq(result[1], first_call[1].instability)

\* a call with a larger tolerance than the first has returned a strictly
\* smaller, still positive, score
C2_Witness ==
    /\ SameConcentrationAsFirst
    /\ metastability > first_call[1].metastability
    /\ RatLess(result[1], first_call[1].instability)
    /\ RatLess(RatInt(0), result[1])

\* C3 (its half about formula and energy, which the whole claim implies): the
\* entry list handed to the diagram builder holds no two entries with the
\* same reduced formula and energies per atom closer than 1e-6.
C3_NoFormulaEnergyDuplicates ==
    DiagramBuilt =>
        \A i, j \in 1..Len(all_entries) :
            i < j => ~same_energy_and_formula(all_entries[i], all_entries[j])

\* what C4 gives for the compound's g0, before any reduction
C4_FormEnergy ==
    self[1].energy
    - 10 * metastability * num_atoms(self[1].composition)
    - SumOver([elt \in DOMAIN self[1].composition |->
                  END_MEMBERS[elt] * self[1].composition[elt]],
              DOMAIN self[1].composition)

\* C4, as amended: the g0 of the compound's entry that enters hull
\* construction is total_energy - (metastability / 1000) * num_atoms - the
\* sum of end_member_energy[element] * amount[element], divided by the
\* reduction factor of the composition (1 for a formula in lowest terms),
\* and its concentration is the solid default of 1.
C4_CompoundG0 ==
    DiagramBuilt =>
        /\ g0(all_entries[1]) = Rat(C4_FormEnergy, reduction_factor(self[1].composition))
        /\ all_entries[1] = pbx_cmpd[1]
        /\ all_entries[1].conc = 0

\* C4 as claimed: g0 is that value itself, whatever the formula.
C4_CompoundG0Unreduced ==
    DiagramBuilt =>
        /\ g0(all_entries[1]) = RatInt(C4_FormEnergy)
        /\ all_entries[1].conc = 0

\* a compound whose formula is not in lowest terms has entered hull
\* construction with a non-zero tolerance
C4_Witness ==
    /\ DiagramBuilt
    /\ reduction_factor(self[1].composition) > 1
    /\ metastability # 0
    /\ g0(all_entries[1]).num # 0

TargetElements == { e \in DOMAIN self[1].composition : e \notin {"O", "H"} }

\* the ion species the reference data records for any target element
RecordedIons == UNION { DOMAIN ExpFormEnergy[e] : e \in TargetElements }

\* the target elements of which the ion species k holds a non-zero amount
Holders(k) == { e \in TargetElements : Amount(Ion_from_formula[k].composition, e) # 0 }

\* the places of pbx_ion_entries whose entry is named k
EntriesNamed(k) == { i \in 1..Len(pbx_ion_entries) : pbx_ion_entries[i].name = k }

\* C6: the list of ion entries holds exactly one entry for each pair (target
\* element e, ion species k recorded for any target element) with a non-zero
\* amount of e in k, and none for a pair with a zero amount; each entry has
\* the concentration passed to make_plot and the ion formula k as its name;
\* an ion with two target elements is entered once per element, each time
\* with that element's correction only.
C6_OneEntryPerElementAndIon ==
    IonEntriesBuilt =>
        /\ \A i \in 1..Len(pbx_ion_entries) :
              /\ pbx_ion_entries[i].name \in RecordedIons
              /\ pbx_ion_entries[i].conc = ion_concentration
              /\ pbx_ion_entries[i].phase_type = "Ion"
        /\ \A k \in RecordedIons :
              /\ Cardinality(EntriesNamed(k)) = Cardinality(Holders(k))
              /\ \A e \in Holders(k) :
                    \E i \in EntriesNamed(k) :
                        pbx_ion_entries[i].correction =
                            RatInt(IonCorrection[e] * Ion_from_formula[k].composition[e])
        /\ DiagramBuilt => all_entries = <<pbx_cmpd[1]>> \o pbx_ion_entries

\* an ion with two target elements has been entered twice, with two
\* corrections, and a pair with a zero amount has been skipped
C6_Witness ==
    /\ IonEntriesBuilt
    /\ Cardinality(TargetElements) = 2
    /\ \E i, j \in EntriesNamed("MoS4[2-]") :
          pbx_ion_entries[i].correction # pbx_ion_entries[j].correction
    /\ \E k \in RecordedIons : Cardinality(Holders(k)) = 1
    /\ ion_concentration = 0 - 8

\* C7: when the reference data holds no ion data for a non-O/H element of the
\* compound (the element is not in the table, or its record is empty),
\* make_plot does not fail for it.
C7_MissingIonDataIsNotFatal ==
    (/\ self # <<>>
     /\ \E e \in TargetElements :
           e \notin DOMAIN ExpFormEnergy \/ DOMAIN ExpFormEnergy[e] = {})
        => ~(pc = "raised" /\ traceback = "L81")

\* every lookup of the call has found its key
LookupsSucceeded ==
    /\ TargetElements \subseteq DOMAIN ExpFormEnergy
    /\ DOMAIN self[1].composition \subseteq DOMAIN END_MEMBERS
    /\ \A k \in RecordedIons : Holders(k) \subseteq DOMAIN IonCorrection
    /\ \A i \in 2..Len(all_entries) :
          (\E p \in limits : g(all_entries[i], p) = hull(all_entries, p))
              => reduced_formula(all_entries[i].composition) \in DOMAIN ION_COLORS

\* C8: a call that ends in an error (the composition string does not parse,
\* or an end-member energy, an ion correction or an ion colour is missing)
\* gives the caller the error, and has written no image and returned no
\* score; an image is written only after every lookup and the hull
\* computation have succeeded.
C8_ErrorsLeaveNoImage ==
    /\ pc = "raised" =>
          /\ raised \in {"CompositionError", "KeyError"}
          /\ savefig = <<>>
          /\ result = <<>>
    /\ savefig # <<>> =>
          /\ pc \in {"L183", "returned"}
          /\ raised = "None"
          /\ instability # <<>>
          /\ LookupsSucceeded

\* the hull was computed and then the colour of a stable ion was missing
C8_Witness ==
    /\ pc = "raised"
    /\ raised = "KeyError"
    /\ traceback = "L144"
    /\ instability # <<>>
    /\ ~LookupsSucceeded

\* C9: a successful call writes exactly one image file, '<reduced
\* formula>.pdf' for a zero metastability tolerance and '<reduced
\* formula>_<metastability>meV.pdf', with the tolerance as the title, for a
\* non-zero one; every entry with a stability region gets one patch, the
\* compound's in the colour Blues(0) and an ion's in its colour of the
\* rainbow map.
C9_OneImagePerCall ==
    pc = "returned" =>
        LET formula == reduced_formula(self[1].composition)
            stable == stable_entries(all_entries)
        IN  /\ Len(savefig) = 1
            /\ metastability = 0 =>
                  /\ savefig[1] = formula \o ".pdf"
                  /\ suptitle = <<>>
            /\ metastability # 0 =>
                  /\ savefig[1] = formula \o "_" \o ToString(metastability) \o "meV.pdf"
                  /\ suptitle = <<"Metastable Tolerance = " \o ToString(metastability)
                                  \o " meV/atom">>
            /\ (self[1].composition = [Mo |-> 2, S |-> 4] /\ metastability = 50)
                  => savefig = <<"MoS2_50meV.pdf">>
            /\ Len(patches) = Len(stable)
            /\ \A i \in 1..Len(stable) :
                  /\ patches[i].name = stable[i].name
                  /\ stable[i] = all_entries[1] => patches[i].color = <<"Blues", 0>>
                  /\ stable[i] # all_entries[1] =>
                        patches[i].color =
                            <<"rainbow", ION_COLORS[reduced_formula(stable[i].composition)]>>

\* a call with a non-zero tolerance has returned, with a patch for the
\* compound and a patch for an ion
C9_Witness ==
    /\ pc = "returned"
    /\ metastability = 50
    /\ savefig = <<"MoS2_50meV.pdf">>
    /\ \E i, j \in 1..Len(patches) :
          /\ patches[i].color = <<"Blues", 0>>
          /\ patches[j].color[1] = "rainbow"

\* C10: a step of make_plot changes neither the object's composition and
\* energy nor the reference tables, and a call that follows the object's
\* first completed call with the same arguments returns the same score
\* for the same entry list.
C10_MakePlotChangesNothing ==
    [][ /\ tables' = tables
        /\ (pc \in Lines \/ pc' = "L81") => self' = self
        /\ (/\ pc' = "returned"
            /\ first_call # <<>>
            /\ first_call[1].metastability = metastability
            /\ first_call[1].ion_concentration = ion_concentration)
              => /\ result' = <<first_call[1].instability>>
                 /\ all_entries' = first_call[1].all_entries ]_vars

\* a later call with the arguments of the first, a non-zero tolerance and a
\* positive score is about to return that score
C10_Witness ==
    /\ pc = "L183"
    /\ first_call # <<>>
    /\ first_call[1].metastability = metastability
    /\ first_call[1].ion_concentration = ion_concentration
    /\ metastability # 0
    /\ instability = <<first_call[1].instability>>
    /\ RatLess(RatInt(0), instability[1])

\* ------------------------------------------------------------------ C11

\* relax has run its vacuum step (line 61) on the structure file
VacuumStepDone == at \in {"L63", "L88", "returned", "raised"} /\ delta # <<>>

\* the length of the c vector of a structure file, in Angstrom
c_length(poscar) == RatTimes(poscar.c_axis, poscar.lattice_parameter)

\* the Cartesian height of atom k in the slab, as get_spacing places it
height(poscar, k) ==
    RatTimes(z_below_cutoff(poscar.z_coords[k], Rat(95, 100)), c_length(poscar))

\* some atom of the given file lies above add_vacuum's cut (0.9) but not
\* above get_spacing's cutoff (0.95)
BetweenCutAndCutoff ==
    \E k \in DOMAIN POSCAR_given.z_coords :
        /\ RatLess(Rat(9, 10), POSCAR_given.z_coords[k])
        /\ RatLeq(POSCAR_given.z_coords[k], Rat(95, 100))

\* C11: after the vacuum step of relax the rewritten POSCAR has an interlayer
\* vacuum of 20 Angstrom as get_spacing measures it, its c vector is longer by
\* exactly the delta passed, and the Cartesian z distance between any two
\* atoms is what it was in the given file
C11_VacuumIsTwentyAngstrom ==
    VacuumStepDone =>
        /\ get_spacing(POSCAR, Rat(95, 100)) = RatInt(20)
        /\ c_length(POSCAR) = RatAdd(c_length(POSCAR_given), delta[1])
        /\ \A j, k \in DOMAIN POSCAR.z_coords :
              RatSub(height(POSCAR, j), height(POSCAR, k))
                = RatSub(height(POSCAR_given, j), height(POSCAR_given, k))

\* ------------------------------------------------------------------ C12

\* the type write_potcar uses for each element of the POSCAR
types_used == IF types = <<>> THEN default_types(POSCAR.elements) ELSE types[1]

\* the directory asked for first: '<element>_<type>', '<element>' for no type
requested(k) ==
    IF types_used[k] = "" THEN POSCAR.elements[k]
    ELSE POSCAR.elements[k] \o "_" \o types_used[k]

\* the candidates of the claim, built on the element symbol of the POSCAR
candidates(k) ==
    LET element == POSCAR.elements[k]
    IN  <<element \o "_sv", element \o "_pv", element \o "_3", element>>

\* the first candidate that is installed, if there is one
first_existing(k) ==
    LET installed == { j \in 1..4 : candidates(k)[j] \in POTENTIAL_PATH }
    IN  IF installed = {} THEN <<>>
        ELSE <<candidates(k)[CHOOSE j \in installed : \A h \in installed : j <= h]>>

\* the potential the claim has write_potcar take for element k, if any
chosen(k) == IF requested(k) \in POTENTIAL_PATH THEN <<requested(k)>> ELSE first_existing(k)

\* write_potcar has run
WritePotcarDone == at \in {"returned", "raised"} /\ exists_calls # <<>>

\* C12: when the requested directory does not exist, write_potcar asks about
\* '<element>_sv', '<element>_pv', '<element>_3' and '<element>' in that order,
\* <element> being the symbol of the POSCAR, and stops at the first that
\* exists; POTCAR holds, in POSCAR order, the requested potential or else the
\* first existing candidate of every element
C12_CandidatesInOrder ==
    WritePotcarDone =>
        /\ \A k \in DOMAIN POSCAR.elements :
              requested(k) \notin POTENTIAL_PATH =>
                  LET asked == Tail(exists_calls[k])
                  IN  /\ asked = SubSeq(candidates(k), 1, Len(asked))
                      /\ \A j \in 1..(Len(asked) - 1) : asked[j] \notin POTENTIAL_PATH
                      /\ asked[Len(asked)] \in POTENTIAL_PATH \/ Len(asked) = 4
        /\ (\A k \in DOMAIN POSCAR.elements : chosen(k) # <<>>) =>
              /\ error = "None"
              /\ POTCAR = <<[k \in DOMAIN POSCAR.elements |-> chosen(k)[1]]>>

\* no element is given the empty type or the type 'regular'
OnlySuffixTypes == \A k \in DOMAIN POSCAR.elements : types_used[k] \notin {"", "regular"}

\* ------------------------------------------------------------------ C13

\* the directory of species i of the list
directory_of(i) == species_directory(started_in, competing_species[i][1])

\* species i is set up: its run has not converged, or force_overwrite is set
to_be_relaxed(i) == force_overwrite \/ ~is_converged(directory_of(i))

\* the species examined so far
examined == 1..(IF specie > Len(competing_species) THEN Len(competing_species) ELSE specie)

\* the input files of a job
InputFiles == {"POSCAR", "KPOINTS", "INCAR", "POTCAR", "runjob"}

====
